---- MODULE Spec2Model ----
(***************************************************************************)
(* Audit server (src/server.js): the photos normalization of               *)
(* POST /api/audits and POST /api/sync, the id checks and the Audit         *)
(* collection with its unique id index.                                     *)
(*                                                                          *)
(* JavaScript values are tagged records [t, v].  A string is a sequence of  *)
(* one-character strings, so that trim, split, replace and JSON.parse act   *)
(* on characters.  An object is a function from property names to values.   *)
(***************************************************************************)
EXTENDS Integers, Sequences, FiniteSets, TLC

VARIABLES store, inflight, last, input, output, phase

vars == <<store, inflight, last, input, output, phase>>

-----------------------------------------------------------------------------
(* JavaScript values *)

Undefined == [t |-> "undefined", v |-> 0]
Null == [t |-> "null", v |-> 0]
NaN == [t |-> "NaN", v |-> 0]
Num(n) == [t |-> "number", v |-> n]
Bool(b) == [t |-> "boolean", v |-> b]
Str(s) == [t |-> "string", v |-> s]
Arr(a) == [t |-> "array", v |-> a]
Obj(f) == [t |-> "object", v |-> f]

EmptyStr == Str(<<>>)

\* typeof x
TypeOf(x) ==
  CASE x.t = "undefined" -> "undefined"
    [] x.t \in {"null", "array", "object"} -> "object"
    [] x.t \in {"number", "NaN"} -> "number"
    [] x.t = "boolean" -> "boolean"
    [] x.t = "string" -> "string"

\* Array.isArray(x)
IsArray(x) == x.t = "array"

\* !!x if the empty string were truthy
TruthyEmptyString(x) ==
  CASE x.t \in {"undefined", "null", "NaN"} -> FALSE
    [] x.t = "number" -> x.v # 0
    [] x.t = "boolean" -> x.v
    [] x.t = "string" -> TRUE
    [] x.t \in {"array", "object"} -> TRUE

\* !!x
Truthy(x) ==
  CASE x.t \in {"undefined", "null", "NaN"} -> FALSE
    [] x.t = "number" -> x.v # 0
    [] x.t = "boolean" -> x.v
    [] x.t = "string" -> Len(x.v) > 0
    [] x.t \in {"array", "object"} -> TRUE

\* x.k for a non-null x: a property of an object, undefined on anything else
\* (an array or a primitive has none of the properties name, data, type)
Get(x, k) == IF x.t = "object" /\ k \in DOMAIN x.v THEN x.v[k] ELSE Undefined

\* a || b
OrElse(a, b) == IF Truthy(a) THEN a ELSE b

-----------------------------------------------------------------------------
(* Strings *)

\* the white space of String.prototype.trim and of JSON, within the alphabet
WhiteSpace == {" ", "\n", "\t"}

DigitChars == <<"0", "1", "2", "3", "4", "5", "6", "7", "8", "9">>

IsDigit(c) == \E d \in 1..10 : DigitChars[d] = c

DigitVal(c) == (CHOOSE d \in 1..10 : DigitChars[d] = c) - 1

RECURSIVE TrimStart(_)
TrimStart(s) ==
  IF s # <<>> /\ Head(s) \in WhiteSpace THEN TrimStart(Tail(s)) ELSE s

RECURSIVE TrimEnd(_)
TrimEnd(s) ==
  IF s # <<>> /\ s[Len(s)] \in WhiteSpace
  THEN TrimEnd(SubSeq(s, 1, Len(s) - 1))
  ELSE s

\* no trim
TrimNothing(s) == s

\* s.trim()
Trim(s) == TrimEnd(TrimStart(s))

\* s.replace(/'/g, '"')
ReplaceQuotes(s) == [i \in 1..Len(s) |-> IF s[i] = "'" THEN "\"" ELSE s[i]]

\* s.replace(/\n/g, '')
RECURSIVE StripNewlines(_)
StripNewlines(s) ==
  IF s = <<>> THEN <<>>
  ELSE IF Head(s) = "\n" THEN StripNewlines(Tail(s))
  ELSE <<Head(s)>> \o StripNewlines(Tail(s))

\* s.startsWith('[') && s.endsWith(']')
Bracketed(s) == s # <<>> /\ Head(s) = "[" /\ s[Len(s)] = "]"

\* s.split(';'): the pieces between the separators, empty pieces kept
RECURSIVE SplitFrom(_, _, _)
SplitFrom(s, cur, acc) ==
  IF s = <<>> THEN Append(acc, cur)
  ELSE IF Head(s) = ";" THEN SplitFrom(Tail(s), <<>>, Append(acc, cur))
  ELSE SplitFrom(Tail(s), Append(cur, Head(s)), acc)

Split(s) == SplitFrom(s, <<>>, <<>>)

\* the characters of a property name as one name
RECURSIVE Join(_)
Join(cs) == IF cs = <<>> THEN "" ELSE Head(cs) \o Join(Tail(cs))

-----------------------------------------------------------------------------
(* JSON.parse, on the alphabet of the model: arrays, objects, string        *)
(* literals, non-negative integers, true, false and null.                   *)

Fail == [ok |-> FALSE, val |-> Undefined, pos |-> 0]

Ok(val, pos) == [ok |-> TRUE, val |-> val, pos |-> pos]

RECURSIVE SkipWs(_, _)
SkipWs(s, i) ==
  IF i <= Len(s) /\ s[i] \in WhiteSpace THEN SkipWs(s, i + 1) ELSE i

MatchAt(s, i, lit) ==
  i + Len(lit) - 1 <= Len(s) /\ SubSeq(s, i, i + Len(lit) - 1) = lit

\* the characters of a string literal after its opening quote: a raw control
\* character (newline, tab) ends the parse with a SyntaxError
RECURSIVE ParseChars(_, _, _)
ParseChars(s, i, acc) ==
  IF i > Len(s) THEN Fail
  ELSE IF s[i] = "\"" THEN Ok(Str(acc), i + 1)
  ELSE IF s[i] \in {"\n", "\t"} THEN Fail
  ELSE IF s[i] = "\\"
    THEN IF i + 1 <= Len(s) /\ s[i + 1] \in {"\"", "\\", "/"}
         THEN ParseChars(s, i + 2, Append(acc, s[i + 1]))
         ELSE IF i + 1 <= Len(s) /\ s[i + 1] = "n"
         THEN ParseChars(s, i + 2, Append(acc, "\n"))
         ELSE IF i + 1 <= Len(s) /\ s[i + 1] = "t"
         THEN ParseChars(s, i + 2, Append(acc, "\t"))
         ELSE Fail
  ELSE ParseChars(s, i + 1, Append(acc, s[i]))

RECURSIVE ParseDigits(_, _, _)
ParseDigits(s, i, acc) ==
  IF i <= Len(s) /\ IsDigit(s[i])
  THEN ParseDigits(s, i + 1, acc * 10 + DigitVal(s[i]))
  ELSE Ok(Num(acc), i)

\* a number: 0, or digits without a leading 0
ParseNumber(s, i) ==
  IF s[i] = "0" THEN Ok(Num(0), i + 1) ELSE ParseDigits(s, i, 0)

RECURSIVE ParseValue(_, _)
RECURSIVE ParseElements(_, _, _)
RECURSIVE ParseMembers(_, _, _)

ParseValue(s, i0) ==
  LET i == SkipWs(s, i0) IN
  IF i > Len(s) THEN Fail
  ELSE IF s[i] = "["
    THEN LET j == SkipWs(s, i + 1) IN
         IF j <= Len(s) /\ s[j] = "]" THEN Ok(Arr(<<>>), j + 1)
         ELSE ParseElements(s, i + 1, <<>>)
  ELSE IF s[i] = "{"
    THEN LET j == SkipWs(s, i + 1) IN
         IF j <= Len(s) /\ s[j] = "}" THEN Ok(Obj(<<>>), j + 1)
         ELSE ParseMembers(s, i + 1, <<>>)
  ELSE IF s[i] = "\"" THEN ParseChars(s, i + 1, <<>>)
  ELSE IF IsDigit(s[i]) THEN ParseNumber(s, i)
  ELSE IF MatchAt(s, i, <<"n", "u", "l", "l">>) THEN Ok(Null, i + 4)
  ELSE IF MatchAt(s, i, <<"t", "r", "u", "e">>) THEN Ok(Bool(TRUE), i + 4)
  ELSE IF MatchAt(s, i, <<"f", "a", "l", "s", "e">>) THEN Ok(Bool(FALSE), i + 5)
  ELSE Fail

\* the elements of an array after its opening bracket
ParseElements(s, i, acc) ==
  LET r == ParseValue(s, i) IN
  IF ~r.ok THEN Fail
  ELSE LET j == SkipWs(s, r.pos) IN
       IF j > Len(s) THEN Fail
       ELSE IF s[j] = "," THEN ParseElements(s, j + 1, Append(acc, r.val))
       ELSE IF s[j] = "]" THEN Ok(Arr(Append(acc, r.val)), j + 1)
       ELSE Fail

\* the members of an object after its opening brace; a repeated key keeps
\* its last value
ParseMembers(s, i0, acc) ==
  LET i == SkipWs(s, i0) IN
  IF i > Len(s) \/ s[i] # "\"" THEN Fail
  ELSE LET k == ParseChars(s, i + 1, <<>>) IN
       IF ~k.ok THEN Fail
       ELSE LET c == SkipWs(s, k.pos) IN
            IF c > Len(s) \/ s[c] # ":" THEN Fail
            ELSE LET r == ParseValue(s, c + 1) IN
                 IF ~r.ok THEN Fail
                 ELSE LET j == SkipWs(s, r.pos)
                          members == (Join(k.val.v) :> r.val) @@ acc
                      IN IF j > Len(s) THEN Fail
                         ELSE IF s[j] = "," THEN ParseMembers(s, j + 1, members)
                         ELSE IF s[j] = "}" THEN Ok(Obj(members), j + 1)
                         ELSE Fail

\* the text is one value r and white space to its end
WholeText(s, r) ==
  IF r.ok /\ SkipWs(s, r.pos) > Len(s)
  THEN [ok |-> TRUE, val |-> r.val]
  ELSE [ok |-> FALSE, val |-> Undefined]

\* JSON.parse(s): ok is FALSE where JSON.parse throws a SyntaxError
JSONParse(s) == WholeText(s, ParseValue(s, 1))

-----------------------------------------------------------------------------
(* Conversions: String(x) and Number(x) *)

RECURSIVE DigitsOf(_)
DigitsOf(n) ==
  IF n < 10 THEN <<DigitChars[n + 1]>>
  ELSE Append(DigitsOf(n \div 10), DigitChars[(n % 10) + 1])

RECURSIVE StringOf(_)
RECURSIVE JoinElements(_)

\* Array.prototype.join(','): null and undefined elements give ''
JoinElements(a) ==
  IF a = <<>> THEN <<>>
  ELSE LET first == IF Head(a).t \in {"undefined", "null"} THEN <<>>
                    ELSE StringOf(Head(a))
       IN IF Len(a) = 1 THEN first
          ELSE first \o <<",">> \o JoinElements(Tail(a))

\* String(x), as characters
StringOf(x) ==
  CASE x.t = "undefined" -> <<"u", "n", "d", "e", "f", "i", "n", "e", "d">>
    [] x.t = "null" -> <<"n", "u", "l", "l">>
    [] x.t = "NaN" -> <<"N", "a", "N">>
    [] x.t = "number" -> DigitsOf(x.v)
    [] x.t = "boolean" -> IF x.v THEN <<"t", "r", "u", "e">>
                          ELSE <<"f", "a", "l", "s", "e">>
    [] x.t = "string" -> x.v
    [] x.t = "array" -> JoinElements(x.v)
    [] x.t = "object" -> <<"[", "o", "b", "j", "e", "c", "t", " ",
                           "O", "b", "j", "e", "c", "t", "]">>

RECURSIVE DigitsValue(_, _)
DigitsValue(s, acc) ==
  IF s = <<>> THEN acc ELSE DigitsValue(Tail(s), acc * 10 + DigitVal(Head(s)))

\* Number(s) of a string: 0 for an empty or blank one, the value of a run of
\* digits, NaN otherwise
StringToNumber(s) ==
  LET t == Trim(s) IN
  IF t = <<>> THEN Num(0)
  ELSE IF \A i \in 1..Len(t) : IsDigit(t[i]) THEN Num(DigitsValue(t, 0))
  ELSE NaN

\* Number(x)
ToNumber(x) ==
  CASE x.t = "undefined" -> NaN
    [] x.t = "null" -> Num(0)
    [] x.t \in {"number", "NaN"} -> x
    [] x.t = "boolean" -> IF x.v THEN Num(1) ELSE Num(0)
    [] x.t = "string" -> StringToNumber(x.v)
    [] x.t \in {"array", "object"} -> StringToNumber(StringOf(x))

\* isNaN(x) of a number
IsNaN(x) == x.t = "NaN"

-----------------------------------------------------------------------------
(* The photos normalization of POST /api/audits (lines 112-188), which     *)
(* POST /api/sync repeats line for line (lines 218-294).                    *)

\* { name: name, data: '', type: '' }
NameOnly(name) == Obj([name |-> Str(name), data |-> EmptyStr, type |-> EmptyStr])

\* a.map(photo => typeof photo === 'string' ? { name: photo, ... } : photo)
WrapStrings(a) ==
  [i \in 1..Len(a) |-> IF TypeOf(a[i]) = "string" THEN NameOnly(a[i].v) ELSE a[i]]

\* a split whose pieces are not trimmed
SplitNamesUntrimmed(str) ==
  LET pieces == Split(str) IN
  [i \in 1..Len(pieces) |-> NameOnly(pieces[i])]

\* str.split(';').map(name => ({ name: name.trim(), data: '', type: '' }))
SplitNames(str) ==
  LET pieces == Split(str) IN
  [i \in 1..Len(pieces) |-> NameOnly(Trim(pieces[i]))]

\* a catch that gives up with no photos
ParseFailedEmpty(str, fixed) == Arr(<<>>)

\* line 131: the result of a bracketed string that JSON.parse rejects
ParseFailed(str, fixed) == Arr(SplitNames(str))

\* lines 117-132: a bracketed string str, fixed its text with the quotes
\* replaced and parsed the outcome of JSON.parse(fixed)
ShapeParsed(str, fixed, parsed) ==
  IF parsed.ok
  THEN IF IsArray(parsed.val)
       THEN Arr(WrapStrings(parsed.val.v))
       ELSE Arr(SplitNames(str))
  ELSE ParseFailed(str, fixed)

\* lines 115-135: a string that is not blank, trimmed
ShapeString(str) ==
  IF Bracketed(str)
  THEN ShapeParsed(str, ReplaceQuotes(str), JSONParse(ReplaceQuotes(str)))
  ELSE Arr(SplitNames(str))

\* the same with no branch for a single object
ShapePhotosNoObject(photos) ==
  IF ~IsArray(photos)
  THEN IF TypeOf(photos) = "string" /\ Trim(photos.v) # <<>>
       THEN ShapeString(Trim(photos.v))
       ELSE Arr(<<>>)
  ELSE Arr(WrapStrings(photos.v))

\* lines 113-148: every input shape becomes an array
ShapePhotos(photos) ==
  IF ~IsArray(photos)
  THEN IF TypeOf(photos) = "string" /\ Trim(photos.v) # <<>>
       THEN ShapeString(Trim(photos.v))
       ELSE IF TypeOf(photos) = "object" /\ photos # Null
       THEN Arr(<<photos>>)
       ELSE Arr(<<>>)
  ELSE Arr(WrapStrings(photos.v))

\* try { JSON.parse(...) } catch { [] }
ParsedOrEmpty(parsed) == IF parsed.ok THEN parsed.val ELSE Arr(<<>>)

\* lines 150-157: a value that is still a string is parsed, [] on failure
ReparseString(photos) ==
  IF TypeOf(photos) = "string" THEN ParsedOrEmpty(JSONParse(photos.v)) ELSE photos

\* typeof photo === 'string' ||
\*   (typeof photo === 'object' && photo !== null && typeof photo.name === 'string')
ValidElement(photo) ==
  \/ TypeOf(photo) = "string"
  \/ /\ TypeOf(photo) = "object"
     /\ photo # Null
     /\ TypeOf(Get(photo, "name")) = "string"

\* lines 159-165: one invalid element empties the whole array
ValidatePhotos(photos) ==
  IF IsArray(photos) /\ \A i \in 1..Len(photos.v) : TypeOf(photos.v[i]) = "string"
  THEN photos
  ELSE IF ~IsArray(photos) \/ ~(\A i \in 1..Len(photos.v) : ValidElement(photos.v[i]))
  THEN Arr(<<>>)
  ELSE photos

\* the filter of lines 169-173
KeepCleaned(photo) ==
  IF TypeOf(photo) = "string" THEN Len(photo.v) > 0
  ELSE IF TypeOf(photo) = "object" /\ photo # Null THEN Truthy(Get(photo, "name"))
  ELSE FALSE

\* lines 167-173: string elements are trimmed, empty ones and objects
\* without a truthy name are dropped
CleanPhotos(photos) ==
  LET a == IF IsArray(photos) THEN photos.v ELSE <<>>
      trimmed == [i \in 1..Len(a) |->
                    IF TypeOf(a[i]) = "string" THEN Str(Trim(a[i].v)) ELSE a[i]]
  IN Arr(SelectSeq(trimmed, KeepCleaned))

\* a conversion that keeps the name alone
ToRecordNameOnly(photo) ==
  IF TypeOf(photo) = "string" THEN NameOnly(photo.v)
  ELSE IF TypeOf(photo) = "object" /\ photo # Null
  THEN Obj([name |-> OrElse(Get(photo, "name"), EmptyStr),
            data |-> EmptyStr,
            type |-> EmptyStr])
  ELSE Null

\* a conversion that takes data for type and type for data
ToRecordSwapped(photo) ==
  IF TypeOf(photo) = "string" THEN NameOnly(photo.v)
  ELSE IF TypeOf(photo) = "object" /\ photo # Null
  THEN Obj([name |-> OrElse(Get(photo, "name"), EmptyStr),
            data |-> OrElse(Get(photo, "type"), EmptyStr),
            type |-> OrElse(Get(photo, "data"), EmptyStr)])
  ELSE Null

\* the map of lines 176-187
ToRecord(photo) ==
  IF TypeOf(photo) = "string" THEN NameOnly(photo.v)
  ELSE IF TypeOf(photo) = "object" /\ photo # Null
  THEN Obj([name |-> OrElse(Get(photo, "name"), EmptyStr),
            data |-> OrElse(Get(photo, "data"), EmptyStr),
            type |-> OrElse(Get(photo, "type"), EmptyStr)])
  ELSE Null

\* the filter of line 188: p && typeof p.name === 'string' && p.name
KeepRecord(p) ==
  Truthy(p) /\ TypeOf(Get(p, "name")) = "string" /\ Truthy(Get(p, "name"))

\* lines 176-188
ConvertPhotos(photos) ==
  Arr(SelectSeq([i \in 1..Len(photos.v) |-> ToRecord(photos.v[i])], KeepRecord))

\* lines 112-188: the value of audit.photos before fixPhotosField
NormalizePhotos(photos) ==
  ConvertPhotos(CleanPhotos(ValidatePhotos(ReparseString(ShapePhotos(photos)))))

-----------------------------------------------------------------------------
(* fixPhotosField and processPhotos *)

\* a fix that keeps no photos
FixToEmpty(photosValue) == Arr(<<>>)

\* lines 66-81
FixPhotosField(photosValue) ==
  IF ~Truthy(photosValue) THEN Arr(<<>>)
  ELSE IF TypeOf(photosValue) = "string"
  THEN ParsedOrEmpty(JSONParse(ReplaceQuotes(StripNewlines(photosValue.v))))
  ELSE IF IsArray(photosValue) THEN photosValue ELSE Arr(<<>>)

\* a photo left as it is
PhotoUnchanged(photo) == photo

\* typeof photo === 'object' && photo.name ? photo.name : String(photo)
PhotoName(photo) ==
  IF TypeOf(photo) = "object" /\ Truthy(Get(photo, "name"))
  THEN Get(photo, "name")
  ELSE Str(StringOf(photo))

\* lines 95-99, on a value that is not a string any more; threw: photo.name
\* of a null element is a TypeError
NamesOf(photosData) ==
  IF ~IsArray(photosData) THEN [threw |-> FALSE, val |-> Arr(<<>>)]
  ELSE IF \E i \in 1..Len(photosData.v) : photosData.v[i] = Null
  THEN [threw |-> TRUE, val |-> Undefined]
  ELSE [threw |-> FALSE,
        val |-> Arr([i \in 1..Len(photosData.v) |-> PhotoName(photosData.v[i])])]

\* lines 87-93: a string is parsed, and [] is returned when it does not parse
NamesOfParsed(parsed) ==
  IF parsed.ok THEN NamesOf(parsed.val) ELSE [threw |-> FALSE, val |-> Arr(<<>>)]

\* lines 84-100
ProcessPhotos(photosData) ==
  IF ~Truthy(photosData) THEN [threw |-> FALSE, val |-> Arr(<<>>)]
  ELSE IF TypeOf(photosData) = "string" THEN NamesOfParsed(JSONParse(photosData.v))
  ELSE NamesOf(photosData)

-----------------------------------------------------------------------------
(* The Audit collection (the Mongoose model of lines 16-43) *)

\* the ids in the collection
Ids(s) == {s[i].id : i \in 1..Len(s)}

\* the schema's photos path, [String] with the validator of lines 31-36: a
\* string element is kept, a number or a boolean is cast to its String, an
\* object, an array or a null element fails the document's validation
SchemaPhotos(photos) ==
  LET a == IF IsArray(photos) THEN photos.v ELSE <<photos>> IN
  IF \A i \in 1..Len(a) : a[i].t \in {"string", "number", "NaN", "boolean"}
  THEN [ok |-> TRUE, val |-> [i \in 1..Len(a) |-> Str(StringOf(a[i]))]]
  ELSE [ok |-> FALSE, val |-> <<>>]

\* new Audit({ ...audit, synced: true }) and its validation: id is a
\* required Number, NaN is a cast error on every Number path, photos as above
ValidAudit(audit) ==
  /\ ~IsNaN(audit.id)
  /\ SchemaPhotos(audit.photos).ok
  /\ ~IsNaN(audit.totalTeachers) /\ ~IsNaN(audit.totalStudents)
  /\ ~IsNaN(audit.latitude) /\ ~IsNaN(audit.longitude)

AuditDoc(audit) ==
  [id |-> audit.id.v, photos |-> SchemaPhotos(audit.photos).val, synced |-> TRUE,
   totalTeachers |-> audit.totalTeachers, totalStudents |-> audit.totalStudents,
   latitude |-> audit.latitude, longitude |-> audit.longitude]

\* an insert with no unique index
InsertAlways(s, doc) == [ok |-> TRUE, store |-> Append(s, doc)]

\* one insert under the unique index on id (line 17): a duplicate key is
\* an error and leaves the collection as it was
InsertOne(s, doc) ==
  IF doc.id \in Ids(s) THEN [ok |-> FALSE, store |-> s]
  ELSE [ok |-> TRUE, store |-> Append(s, doc)]

\* the ordered bulk insert of Audit.insertMany: documents are inserted in
\* order up to the first duplicate key, which is the error of the call
RECURSIVE InsertOrdered(_, _)
InsertOrdered(s, docs) ==
  IF docs = <<>> THEN [ok |-> TRUE, store |-> s]
  ELSE LET r == InsertOne(s, Head(docs)) IN
       IF r.ok THEN InsertOrdered(r.store, Tail(docs)) ELSE r

\* Audit.insertMany(newAudits): every document is validated first and one
\* invalid document rejects the call before anything is written
InsertMany(s, audits) ==
  IF \A i \in 1..Len(audits) : ValidAudit(audits[i])
  THEN InsertOrdered(s, [i \in 1..Len(audits) |-> AuditDoc(audits[i])])
  ELSE [ok |-> FALSE, store |-> s]

\* newAudit.save()
Save(s, audit) ==
  IF ValidAudit(audit) THEN InsertOne(s, AuditDoc(audit))
  ELSE [ok |-> FALSE, store |-> s]

-----------------------------------------------------------------------------
(* The handlers *)

\* line 107: !audit.id || isNaN(Number(audit.id))
InvalidId(id) == ~Truthy(id) \/ IsNaN(ToNumber(id))

\* audit.k: undefined for a property the body does not have
Field(audit, k) == IF k \in DOMAIN audit THEN audit[k] ELSE Undefined

\* lines 190-191: Number(x) || 0
OrZero(x) == OrElse(ToNumber(x), Num(0))

\* a coordinate that is never null
CoordinateNumber(x) == IF x # Undefined THEN ToNumber(x) ELSE Null

\* lines 192-193: x !== undefined && x !== null && x !== '' ? Number(x) : null
Coordinate(x) ==
  IF x # Undefined /\ x # Null /\ x # EmptyStr THEN ToNumber(x) ELSE Null

\* the audit with its id, photos and numeric fields coerced; threw when
\* processPhotos raised
Prepared(audit, processed) ==
  [threw |-> processed.threw,
   audit |-> [id |-> ToNumber(audit.id), photos |-> processed.val,
              totalTeachers |-> OrZero(Field(audit, "totalTeachers")),
              totalStudents |-> OrZero(Field(audit, "totalStudents")),
              latitude |-> Coordinate(Field(audit, "latitude")),
              longitude |-> Coordinate(Field(audit, "longitude"))]]

\* lines 110-196 of POST /api/audits: the audit handed to new Audit
PrepareAudit(audit) ==
  Prepared(audit, ProcessPhotos(FixPhotosField(NormalizePhotos(audit.photos))))

\* line 303: processPhotos(audit.photos) once more in the returned object
ProcessAgain(processed) ==
  IF processed.threw THEN processed ELSE ProcessPhotos(processed.val)

\* lines 216-303 of POST /api/sync
PrepareSynced(audit) ==
  Prepared(audit,
           ProcessAgain(ProcessPhotos(FixPhotosField(NormalizePhotos(audit.photos)))))

\* no filter
NotFiltered(existingIds, audit) == TRUE

\* line 214: audits.filter(a => !existingIds.has(Number(a.id))); a Set finds
\* NaN, but no stored id is NaN
NotExisting(existingIds, audit) ==
  LET id == ToNumber(audit.id) IN IsNaN(id) \/ id.v \notin existingIds

\* line 214: the payloads of the batch that pass the filter, in order
NewPayloads(existingIds, audits) ==
  LET Keep(a) == NotExisting(existingIds, a) IN SelectSeq(audits, Keep)

-----------------------------------------------------------------------------
(* Inputs: the photos values and the request bodies a client sends *)

\* the longest array of photos among the generated inputs
MaxArr == 3

\* the largest number of audits in the store
MaxStore == 3

\* the longest batch of POST /api/sync
MaxBatch == 2

cA == <<"a">>
cB == <<"b">>
cPadded == <<" ", "b", " ">>
cX == <<"X">>
cT == <<"T">>

sEmpty == <<>>
sBlank == <<" ", "\n">>
sSemi == <<"a", ";", "b">>
sSemiGaps == <<"a", ";", ";", " ", ";", "b">>
sSemiPadded == <<" ", "a", " ", ";", " ", "b", " ">>
sOnlySemi == <<";">>
sBadBracket == <<"[", "a", ";", "b", "]">>
sBadQuote == <<"[", "'", "a", "'", ";", "b", "]">>
sOpen == <<"[">>
sEmptyArr == <<"[", "]">>
sPaddedArr == <<" ", "[", " ", "]", " ">>
sQuoted == <<"[", "'", "a", "'", ",", "'", "b", "'", "]">>
sQuotedObj == <<"[", "{", "'", "n", "a", "m", "e", "'", ":", "'", "a", "'", "}", "]">>
sFullObj == <<"[", "{", "\"", "n", "a", "m", "e", "\"", ":", "\"", "a", "\"", ",", "\"", "d", "a", "t", "a", "\"", ":", "\"", "X", "\"", ",", "\"", "t", "y", "p", "e", "\"", ":", "\"", "T", "\"", "}", "]">>
sNewlineInName == <<"[", "\"", "a", "\n", "b", "\"", "]">>
sNewlineInQuoted == <<"[", "{", "'", "n", "a", "m", "e", "'", ":", "'", "a", "\n", "'", "}", "]">>
sNewlineBetween == <<"[", "\n", "\"", "a", "\"", ",", "\n", "\"", "b", "\"", "]">>
sNumbers == <<"[", "1", ",", " ", "n", "u", "l", "l", "]">>
sObject == <<"{", "\"", "n", "a", "m", "e", "\"", ":", "\"", "a", "\"", "}">>
sApostrophe == <<"[", "\"", "i", "t", "'", "s", "\"", "]">>
sTrailingComma == <<"[", "\"", "a", "\"", ",", "]">>

CuratedStrings ==
  {sEmpty, sBlank, sSemi, sSemiGaps, sSemiPadded, sOnlySemi, sBadBracket,
   sBadQuote, sOpen, sEmptyArr, sPaddedArr, sQuoted, sQuotedObj, sFullObj, sNewlineInName,
   sNewlineInQuoted, sNewlineBetween, sNumbers, sObject, sApostrophe, sTrailingComma}

\* the elements of the generated arrays
Elements ==
  {Str(cA), Str(cPadded), EmptyStr, Null, Num(7), Bool(TRUE),
   Obj([name |-> Str(cA), data |-> Str(cX), type |-> Str(cT)]),
   Obj([name |-> Str(cB)]),
   Obj([name |-> EmptyStr]),
   Obj([name |-> Str(<<" ", " ">>)]),
   Obj([name |-> Str(cPadded), data |-> Str(cX)]),
   Obj([name |-> Num(5)]),
   Obj([data |-> Str(cX)]),
   Obj(<<>>),
   Arr(<<>>)}

\* the elements of the arrays that are also sent as JSON text
TextElements ==
  {Str(cA), Str(cPadded), Null, Num(7),
   Obj([name |-> Str(cA), data |-> Str(cX), type |-> Str(cT)]),
   Obj([name |-> EmptyStr]),
   Obj(<<>>)}

SeqsUpTo(S, n) == UNION {[1..k -> S] : k \in 0..n}

KeyChars(k) ==
  CASE k = "name" -> <<"n", "a", "m", "e">>
    [] k = "data" -> <<"d", "a", "t", "a">>
    [] k = "type" -> <<"t", "y", "p", "e">>

RECURSIVE Text(_, _, _)
RECURSIVE TextList(_, _, _)
RECURSIVE TextMembers(_, _, _, _)

\* the JSON text of x with quote character q and gap after each opening
\* bracket and comma
Text(x, q, gap) ==
  CASE x.t = "string" -> <<q>> \o x.v \o <<q>>
    [] x.t = "number" -> DigitsOf(x.v)
    [] x.t = "null" -> <<"n", "u", "l", "l">>
    [] x.t = "boolean" -> StringOf(x)
    [] x.t = "array" -> <<"[">> \o gap \o TextList(x.v, q, gap) \o <<"]">>
    [] x.t = "object" ->
         <<"{">> \o TextMembers(x.v, SelectSeq(<<"name", "data", "type">>,
                                              LAMBDA k : k \in DOMAIN x.v), q, gap)
         \o <<"}">>

TextList(a, q, gap) ==
  IF a = <<>> THEN <<>>
  ELSE IF Len(a) = 1 THEN Text(Head(a), q, gap)
  ELSE Text(Head(a), q, gap) \o <<",">> \o gap \o TextList(Tail(a), q, gap)

TextMembers(f, keys, q, gap) ==
  IF keys = <<>> THEN <<>>
  ELSE LET member == <<q>> \o KeyChars(Head(keys)) \o <<q, ":">>
                     \o Text(f[Head(keys)], q, gap)
       IN IF Len(keys) = 1 THEN member
          ELSE member \o <<",">> \o gap \o TextMembers(f, Tail(keys), q, gap)

\* a JSON text of every array of at most MaxArr text elements: double or
\* single quotes, with or without a newline between the tokens
GeneratedStrings ==
  {Text(Arr(a), q, gap) :
     a \in SeqsUpTo(TextElements, MaxArr), q \in {"\"", "'"}, gap \in {<<>>, <<"\n">>}}

\* the examples of the specification
exMixed == Arr(<<Str(cA), Null, Num(7), Obj([name |-> Str(cB)])>>)
exEmptyNames == Arr(<<Obj([name |-> EmptyStr]), Obj([name |-> Str(<<" ", " ">>)]), Str(cA)>>)

\* every photos value of the model
PhotoInputs ==
  {Undefined, Null, Num(0), Num(7), Bool(TRUE), Bool(FALSE), exMixed, exEmptyNames}
  \cup Elements
  \cup {Arr(a) : a \in SeqsUpTo(Elements, MaxArr)}
  \cup {Str(s) : s \in CuratedStrings \cup GeneratedStrings}

\* the ids of the payloads of POST /api/audits: absent, zero, a number, the
\* text of a number, a text that is no number
AuditIds ==
  {Undefined, Null, Num(0), Num(1), Str(<<"2">>), Str(<<"x">>)}

\* the ids among them that are sent with every photos value
StorableIds == {Num(1), Str(<<"2">>)}

\* the photos values of the payloads of POST /api/audits
ServerPhotos ==
  {Undefined, Null, Num(7), Bool(TRUE), Str(sSemi), Str(sBadBracket), Str(sFullObj),
   Str(sNumbers), exMixed,
   Obj([name |-> Str(cA), data |-> Str(cX)]),
   Arr(<<Str(cA), Null>>),
   Arr(<<Str(cA), Obj([name |-> Str(cB), data |-> Str(cX), type |-> Str(cT)])>>)}

\* the values of the numeric fields of a payload: absent, null, empty,
\* numbers, the text of a number, a text that is no number
NumberInputs ==
  {Undefined, Null, EmptyStr, Num(0), Num(5), Str(<<"7">>), Str(<<"x">>)}

\* payloads with numeric fields: every value in the two counts with the
\* coordinates absent, and in the two coordinates with the counts absent
NumericPayloads ==
  {[id |-> Num(1), photos |-> Undefined,
    totalTeachers |-> v, totalStudents |-> v, latitude |-> w, longitude |-> w] :
     v \in NumberInputs, w \in {Undefined}}
  \cup
  {[id |-> Num(1), photos |-> Undefined,
    totalTeachers |-> w, totalStudents |-> w, latitude |-> v, longitude |-> v] :
     v \in NumberInputs, w \in {Undefined}}

\* every photos value with a storable id, two of them with every id, and
\* the payloads with numeric fields
AuditPayloads ==
  [id : StorableIds, photos : ServerPhotos]
  \cup [id : AuditIds, photos : {Undefined, Str(sFullObj)}]
  \cup NumericPayloads

\* the payloads of the batches of POST /api/sync
SyncPayloads ==
  {[id |-> Num(1), photos |-> Str(sFullObj)],
   [id |-> Num(1), photos |-> Str(sBadBracket)],
   [id |-> Str(<<"2">>), photos |-> Str(sBadBracket),
    totalTeachers |-> Str(<<"7">>), totalStudents |-> Str(<<"x">>),
    latitude |-> EmptyStr, longitude |-> Num(5)],
   [id |-> Str(<<"x">>), photos |-> Str(sFullObj)]}

Batches == SeqsUpTo(SyncPayloads, MaxBatch)

\* PrepareAudit and PrepareSynced of every payload of the model, computed once
PreparedAudits == [audit \in AuditPayloads |-> PrepareAudit(audit)]

PreparedSynced == [audit \in SyncPayloads |-> PrepareSynced(audit)]

PrepareEach(audits) == [i \in 1..Len(audits) |-> PreparedSynced[audits[i]]]

-----------------------------------------------------------------------------
(* The server: one request is handled at a time *)

NoRequest ==
  [op |-> "none", status |-> 0, isArray |-> TRUE, audits |-> <<>>,
   before |-> <<>>, existing |-> {}]

Init ==
  /\ store = <<>>
  /\ inflight = <<>>
  /\ last = NoRequest
  /\ input = Undefined
  /\ output = Arr(<<>>)
  /\ phase = "server"

\* lines 107-109 and 197-203: the status of the response and the collection
\* after it, for the prepared audit and the outcome of its save
Respond(s, id, threw, saved) ==
  IF InvalidId(id) THEN [status |-> 400, store |-> s]
  ELSE IF threw \/ ~saved.ok THEN [status |-> 500, store |-> s]
  ELSE [status |-> 200, store |-> saved.store]

\* lines 103-204 on the collection s
HandlePostAudit(s, audit, prepared) ==
  Respond(s, audit.id, prepared.threw, Save(s, prepared.audit))

\* the request of POST /api/audits as the history variable keeps it
Posted(s, audit, response) ==
  [op |-> "POST /api/audits", status |-> response.status, isArray |-> TRUE,
   audits |-> <<audit>>, before |-> s, existing |-> Ids(s)]

\* POST /api/audits, lines 103-204
PostAudit(audit) ==
  /\ phase = "server"
  /\ inflight = <<>>
  /\ store' = HandlePostAudit(store, audit, PreparedAudits[audit]).store
  /\ last' = Posted(store, audit, HandlePostAudit(store, audit, PreparedAudits[audit]))
  /\ Len(store') <= MaxStore
  /\ UNCHANGED <<inflight, input, output, phase>>

\* a map whose photos depend on what is stored: none once the store holds
\* an audit
PrepareNewFromStore(existingIds, audits) ==
  [i \in 1..Len(NewPayloads(existingIds, audits)) |->
     IF existingIds = {}
     THEN PreparedSynced[NewPayloads(existingIds, audits)[i]]
     ELSE [PreparedSynced[NewPayloads(existingIds, audits)[i]]
             EXCEPT !.audit.photos = Arr(<<>>)]]

\* lines 214-304: the payloads that pass the filter, prepared
PrepareNew(existingIds, audits) ==
  PrepareEach(NewPayloads(existingIds, audits))

\* an exception in the map of lines 214-304
SomeThrew(prepared) == \E i \in 1..Len(prepared) : prepared[i].threw

\* newAudits of line 214
NewAudits(prepared) == [i \in 1..Len(prepared) |-> prepared[i].audit]

\* the request of POST /api/sync as the history variable keeps it; status 0
\* while the insert is pending
Synced(s, isArray, audits) ==
  [op |-> "POST /api/sync", status |-> 0, isArray |-> isArray,
   audits |-> audits, before |-> s, existing |-> Ids(s)]

\* line 305: insertMany is called for a non-empty newAudits only
InsertNew(s, newAudits) ==
  IF Len(newAudits) > 0 THEN InsertMany(s, newAudits) ELSE [ok |-> TRUE, store |-> s]

\* POST /api/sync up to its insert, lines 207-304: the ids are read, the
\* batch is filtered and every remaining payload prepared
SyncFind(isArray, audits) ==
  /\ phase = "server"
  /\ inflight = <<>>
  /\ last' = [Synced(store, isArray, audits) EXCEPT !.status =
               IF ~isArray THEN 400
               ELSE IF SomeThrew(PrepareNew(Ids(store), audits)) THEN 500
               ELSE 0]
  /\ inflight' =
       IF last'.status = 0
       THEN <<[request |-> last', newAudits |-> NewAudits(PrepareNew(Ids(store), audits))]>>
       ELSE <<>>
  /\ UNCHANGED <<store, input, output, phase>>

\* POST /api/sync from its insert, lines 305-311
SyncInsert ==
  /\ phase = "server"
  /\ inflight # <<>>
  /\ store' = InsertNew(store, Head(inflight).newAudits).store
  /\ last' = [Head(inflight).request EXCEPT
                !.status = IF InsertNew(store, Head(inflight).newAudits).ok
                           THEN 200 ELSE 500,
                !.before = store]
  /\ inflight' = Tail(inflight)
  /\ Len(store') <= MaxStore
  /\ UNCHANGED <<input, output, phase>>

Next ==
  \/ \E audit \in AuditPayloads : PostAudit(audit)
  \/ \E audits \in Batches : SyncFind(TRUE, audits)
  \/ SyncFind(FALSE, <<>>)
  \/ SyncInsert

Spec == Init /\ [][Next]_vars

-----------------------------------------------------------------------------
(* The server with requests handled concurrently: a handler runs from one   *)
(* await to the next without interruption, and other handlers run between   *)
(* its awaits.  POST /api/audits awaits newAudit.save() (line 198); POST    *)
(* /api/sync awaits Audit.find (line 211) and Audit.insertMany (line 305).  *)

\* the largest number of requests between their awaits
MaxInflight == 2

\* the payloads of the concurrent POST /api/audits requests
ConcPayloads ==
  {[id |-> Num(1), photos |-> Str(sFullObj)],
   [id |-> Str(<<"2">>), photos |-> exMixed],
   [id |-> Num(0), photos |-> Undefined]}

\* the payloads of the concurrent POST /api/sync requests
syncOne == [id |-> Num(1), photos |-> Str(sFullObj)]
syncOneAgain == [id |-> Num(1), photos |-> Str(sBadBracket)]
syncTwo ==
  [id |-> Str(<<"2">>), photos |-> Str(sBadBracket),
   totalTeachers |-> Str(<<"7">>), totalStudents |-> Str(<<"x">>),
   latitude |-> EmptyStr, longitude |-> Num(5)]

\* the batches of the concurrent POST /api/sync requests: one payload, two
\* ids, one id twice
ConcBatches ==
  {<<syncOne>>, <<syncTwo>>, <<syncOne, syncTwo>>, <<syncTwo, syncOne>>,
   <<syncOne, syncOneAgain>>}

\* the sequence without its k-th element
Without(seq, k) == SubSeq(seq, 1, k - 1) \o SubSeq(seq, k + 1, Len(seq))

\* a request of POST /api/audits that awaits its save
AwaitingSave(audit, prepared) ==
  [request |-> [op |-> "POST /api/audits", status |-> 0, isArray |-> TRUE,
                audits |-> <<audit>>, before |-> <<>>, existing |-> {}],
   newAudits |-> <<prepared.audit>>]

\* a request of POST /api/sync that awaits its insert
AwaitingInsert(existingIds, audits) ==
  [request |-> [op |-> "POST /api/sync", status |-> 0, isArray |-> TRUE,
                audits |-> audits, before |-> <<>>, existing |-> existingIds],
   newAudits |-> NewAudits(PrepareNew(existingIds, audits))]

\* POST /api/audits up to its save, lines 103-197: answered at once when
\* the id is invalid or processPhotos raised
ConcPostStart(audit) ==
  /\ phase = "server"
  /\ Len(inflight) < MaxInflight
  /\ IF InvalidId(audit.id) \/ PreparedAudits[audit].threw
     THEN /\ last' = Posted(store, audit,
                            [status |-> IF InvalidId(audit.id) THEN 400 ELSE 500])
          /\ inflight' = inflight
     ELSE /\ last' = last
          /\ inflight' = Append(inflight, AwaitingSave(audit, PreparedAudits[audit]))
  /\ UNCHANGED <<store, input, output, phase>>

\* POST /api/audits from its save, lines 198-203
ConcPostSave(k) ==
  /\ phase = "server"
  /\ inflight[k].request.op = "POST /api/audits"
  /\ store' = Save(store, inflight[k].newAudits[1]).store
  /\ last' = [inflight[k].request EXCEPT
                !.status = IF Save(store, inflight[k].newAudits[1]).ok THEN 200 ELSE 500,
                !.before = store,
                !.existing = Ids(store)]
  /\ inflight' = Without(inflight, k)
  /\ UNCHANGED <<input, output, phase>>

\* POST /api/sync from the result of its find to its insert, lines 212-304
ConcSyncFind(audits) ==
  /\ phase = "server"
  /\ Len(inflight) < MaxInflight
  /\ IF SomeThrew(PrepareNew(Ids(store), audits))
     THEN /\ last' = [Synced(store, TRUE, audits) EXCEPT !.status = 500]
          /\ inflight' = inflight
     ELSE /\ last' = last
          /\ inflight' = Append(inflight, AwaitingInsert(Ids(store), audits))
  /\ UNCHANGED <<store, input, output, phase>>

\* POST /api/sync from its insert, lines 305-311
ConcSyncInsert(k) ==
  /\ phase = "server"
  /\ inflight[k].request.op = "POST /api/sync"
  /\ store' = InsertNew(store, inflight[k].newAudits).store
  /\ last' = [inflight[k].request EXCEPT
                !.status = IF InsertNew(store, inflight[k].newAudits).ok
                           THEN 200 ELSE 500,
                !.before = store]
  /\ inflight' = Without(inflight, k)
  /\ UNCHANGED <<input, output, phase>>

NextConc ==
  \/ \E audit \in ConcPayloads : ConcPostStart(audit)
  \/ \E k \in 1..Len(inflight) : ConcPostSave(k)
  \/ \E audits \in ConcBatches : ConcSyncFind(audits)
  \/ \E k \in 1..Len(inflight) : ConcSyncInsert(k)

SpecConc == Init /\ [][NextConc]_vars

-----------------------------------------------------------------------------
(* The LGA/school mappings of src/unnamed/part_000: POST /api/lgas awaits   *)
(* LgaSchool.deleteMany (line 417) and LgaSchool.insertMany (line 420), GET *)
(* /api/lgas awaits LgaSchool.find (line 431).  The store is the LgaSchool  *)
(* collection, a document per inserted entry, in insertion order.           *)

lgaIkeja == <<"I">>
lgaEpe == <<"E">>

\* an object of the request body, as its entries in the order of
\* Object.entries
Entry(localGov, schools) == [localGov |-> localGov, schools |-> schools]

\* the values of lagosStateData in the body of POST /api/lgas
lgaOne == Obj(<<Entry(lgaIkeja, Arr(<<Str(cA)>>))>>)
lgaTwo ==
  Obj(<<Entry(lgaIkeja, Arr(<<Str(cB)>>)),
        Entry(lgaEpe, Arr(<<Str(cA), Str(cB)>>))>>)
lgaNoSchools == Obj(<<Entry(lgaEpe, Arr(<<>>))>>)
lgaBlankSchool == Obj(<<Entry(lgaEpe, Arr(<<Str(cA), EmptyStr>>))>>)
lgaBlankName == Obj(<<Entry(<<>>, Arr(<<Str(cA)>>))>>)

LgaPayloads ==
  {Undefined, Null, Str(<<"x">>), Arr(<<>>),
   lgaOne, lgaTwo, lgaNoSchools, lgaBlankSchool, lgaBlankName}

\* Object.entries(x) of an object or an array
ObjectEntries(x) ==
  IF x.t = "array"
  THEN [i \in 1..Len(x.v) |-> Entry(StringOf(Num(i - 1)), x.v[i])]
  ELSE x.v

\* line 419: ([localGov, schools]) => ({ localGov, schools })
LgaDocs(lagosStateData) == ObjectEntries(lagosStateData)

\* the schema of lines 58-61 on a document: localGov is a required string
\* (the empty string is not a value of a required string), schools is an
\* array of required strings
ValidLga(doc) ==
  /\ Len(doc.localGov) > 0
  /\ doc.schools.t = "array"
  /\ \A i \in 1..Len(doc.schools.v) :
       /\ doc.schools.v[i].t \in {"string", "number", "boolean"}
       /\ Len(StringOf(doc.schools.v[i])) > 0

\* the stored document: each school cast to a string
LgaDoc(doc) ==
  Entry(doc.localGov,
        Arr([i \in 1..Len(doc.schools.v) |-> Str(StringOf(doc.schools.v[i]))]))

\* LgaSchool.insertMany(docs) on the collection s: every document is
\* validated before any is written
LgaInsertMany(s, docs) ==
  IF \A i \in 1..Len(docs) : ValidLga(docs[i])
  THEN [ok |-> TRUE, store |-> s \o [i \in 1..Len(docs) |-> LgaDoc(docs[i])]]
  ELSE [ok |-> FALSE, store |-> s]

\* the index of the last document of s with the name k
LastOf(s, k) ==
  CHOOSE i \in 1..Len(s) :
    /\ s[i].localGov = k
    /\ \A j \in (i + 1)..Len(s) : s[j].localGov # k

\* lines 433-436: result[doc.localGov] = doc.schools, for each document in
\* turn
LgaResult(s) ==
  Obj([k \in {s[i].localGov : i \in 1..Len(s)} |-> s[LastOf(s, k)].schools])

\* a request of POST /api/lgas, and its response
LgaRequest(lagosStateData, status, before) ==
  [op |-> "POST /api/lgas", status |-> status,
   lagosStateData |-> lagosStateData, before |-> before]

\* the last completed POST /api/lgas at a response r
LastPost(r) == IF r.op = "GET /api/lgas" THEN r.post ELSE r

\* POST /api/lgas up to its deleteMany, lines 410-417
LgaPostStart(lagosStateData) ==
  /\ phase = "server"
  /\ Len(inflight) < MaxInflight
  /\ IF ~Truthy(lagosStateData) \/ TypeOf(lagosStateData) # "object"
     THEN /\ last' = LgaRequest(lagosStateData, 400, store)
          /\ inflight' = inflight
     ELSE /\ last' = last
          /\ inflight' = Append(inflight,
                                [request |-> LgaRequest(lagosStateData, 0, <<>>),
                                 step |-> "deleteMany"])
  /\ UNCHANGED <<store, input, output, phase>>

\* POST /api/lgas from its deleteMany to its insertMany, lines 417-420
LgaPostDelete(k) ==
  /\ phase = "server"
  /\ inflight[k].step = "deleteMany"
  /\ store' = <<>>
  /\ inflight' = [inflight EXCEPT ![k].step = "insertMany"]
  /\ UNCHANGED <<last, input, output, phase>>

\* POST /api/lgas from its insertMany, lines 420-425
LgaPostInsert(k) ==
  /\ phase = "server"
  /\ inflight[k].step = "insertMany"
  /\ store' =
       LgaInsertMany(store, LgaDocs(inflight[k].request.lagosStateData)).store
  /\ last' = [inflight[k].request EXCEPT
                !.status =
                  IF LgaInsertMany(store,
                                   LgaDocs(inflight[k].request.lagosStateData)).ok
                  THEN 200 ELSE 500,
                !.before = store]
  /\ inflight' = Without(inflight, k)
  /\ UNCHANGED <<input, output, phase>>

\* GET /api/lgas, lines 429-442
LgaGet ==
  /\ phase = "server"
  /\ last' = [op |-> "GET /api/lgas", status |-> 200,
              lagosStateData |-> LgaResult(store), post |-> LastPost(last)]
  /\ UNCHANGED <<store, inflight, input, output, phase>>

NextLga ==
  \/ \E lagosStateData \in LgaPayloads : LgaPostStart(lagosStateData)
  \/ \E k \in 1..Len(inflight) : LgaPostDelete(k)
  \/ \E k \in 1..Len(inflight) : LgaPostInsert(k)
  \/ LgaGet

SpecLga == Init /\ [][NextLga]_vars

-----------------------------------------------------------------------------
(* The update and the removal of an audit, PUT and DELETE /api/audits/:id   *)
(* of src/unnamed/part_000 (lines 371-407), one request at a time, on the   *)
(* collection that POST /api/sync fills.                                    *)

\* the payloads of the batches that fill the collection: the ids 0, 1 and 2
editZero == [id |-> Num(0), photos |-> Undefined]
editOne == [id |-> Num(1), photos |-> Str(sFullObj), totalTeachers |-> Num(5)]
editTwo == syncTwo

EditPayloads == {editZero, editOne, editTwo}

EditBatches == SeqsUpTo(EditPayloads, MaxBatch)

\* PrepareSynced of these payloads, computed once
EditSynced == [audit \in EditPayloads |-> PrepareSynced(audit)]

\* lines 214-311 on the collection s, for the payloads that passed the filter
SyncNew(s, new) ==
  IF \E i \in 1..Len(new) : EditSynced[new[i]].threw
  THEN [ok |-> FALSE, store |-> s]
  ELSE InsertNew(s, [i \in 1..Len(new) |-> EditSynced[new[i]].audit])

\* a request and its response as the history variable keeps them: id is
\* req.params.id, body is req.body, before is the collection it found
Edited(op, status, id, body, before) ==
  [op |-> op, status |-> status, id |-> id, body |-> body, before |-> before]

\* POST /api/sync with an array, lines 207-312
EditSync(audits) ==
  /\ phase = "server"
  /\ store' = SyncNew(store, NewPayloads(Ids(store), audits)).store
  /\ last' = Edited("POST /api/sync",
                    IF SyncNew(store, NewPayloads(Ids(store), audits)).ok
                    THEN 200 ELSE 500,
                    <<>>, audits, store)
  /\ Len(store') <= MaxStore
  /\ UNCHANGED <<inflight, input, output, phase>>

\* req.params.id: the texts of 0, 1 and 2 and a text that is no number
IdParams == {<<"0">>, <<"1">>, <<"2">>, <<"x">>}

\* line 378
allowedFields ==
  {"schoolName", "localGov", "schoolAddress", "latitude", "longitude",
   "principalName", "totalTeachers", "totalStudents", "facilityCondition",
   "additionalNotes", "photos", "auditor", "timestamp", "synced"}

\* the bodies of PUT /api/audits/:id: among the allowed fields, those the
\* documents of the model keep; an id and a field outside the list; a
\* latitude that is no number; a null photo; a photos string
putCounts ==
  [id |-> Num(9), extra |-> Str(cX), totalTeachers |-> Str(<<"7">>),
   photos |-> Arr(<<Str(cA), Obj([name |-> Str(cB), data |-> Str(cX)]),
                    Num(5), EmptyStr>>)]
putBadLatitude == [latitude |-> Str(<<"x">>), totalStudents |-> Num(5)]
putNullPhoto == [photos |-> Arr(<<Null>>), synced |-> Bool(FALSE)]
putUnsynced == [photos |-> Str(sSemi), synced |-> Bool(FALSE)]

PutBodies == {putCounts, putBadLatitude, putNullPhoto, putUnsynced}

\* line 381: the allowed fields of the body that are not undefined
UpdateData(update) ==
  [f \in {k \in allowedFields \cap DOMAIN update : update[k] # Undefined} |->
     update[f]]

\* p => typeof p === 'string' ? p : p.name
NameOfPhoto(p) == IF TypeOf(p) = "string" THEN p ELSE Get(p, "name")

\* lines 383-385; threw: p.name of a null element is a TypeError
PutPhotos(photos) ==
  IF ~Truthy(photos) THEN [threw |-> FALSE, val |-> photos]
  ELSE IF ~IsArray(photos) THEN [threw |-> FALSE, val |-> Arr(<<>>)]
  ELSE IF \E i \in 1..Len(photos.v) : photos.v[i] \in {Null, Undefined}
  THEN [threw |-> TRUE, val |-> Undefined]
  ELSE [threw |-> FALSE,
        val |-> Arr(SelectSeq([i \in 1..Len(photos.v) |-> NameOfPhoto(photos.v[i])],
                              Truthy))]

\* lines 383-385 on updateData
NormalizedUpdate(updateData) ==
  IF "photos" \in DOMAIN updateData
  THEN [threw |-> PutPhotos(updateData.photos).threw,
        val |-> [updateData EXCEPT !.photos = PutPhotos(updateData.photos).val]]
  ELSE [threw |-> FALSE, val |-> updateData]

\* the cast of a value to a Number path by the update: null and '' are
\* null, a value whose Number is NaN is a cast error
CastNumber(x) ==
  IF x \in {Null, EmptyStr} THEN [ok |-> TRUE, val |-> Null]
  ELSE IF x.t \in {"array", "object"} \/ IsNaN(ToNumber(x))
  THEN [ok |-> FALSE, val |-> Null]
  ELSE [ok |-> TRUE, val |-> ToNumber(x)]

\* the cast of a value to the Boolean path synced
CastBoolean(x) ==
  IF x \in {Bool(TRUE), Num(1), Str(<<"t", "r", "u", "e">>), Str(<<"1">>)}
  THEN [ok |-> TRUE, val |-> TRUE]
  ELSE IF x \in {Bool(FALSE), Num(0), Str(<<"f", "a", "l", "s", "e">>), Str(<<"0">>)}
  THEN [ok |-> TRUE, val |-> FALSE]
  ELSE [ok |-> FALSE, val |-> FALSE]

\* the cast of the value x of the field f by Audit.findOneAndUpdate, after
\* the schema of lines 16-43
CastField(f, x) ==
  CASE f = "photos" -> SchemaPhotos(x)
    [] f \in {"totalTeachers", "totalStudents", "latitude", "longitude"} ->
         CastNumber(x)
    [] f = "synced" -> CastBoolean(x)
    [] OTHER -> [ok |-> TRUE, val |-> x]

CastOk(updateData) ==
  \A f \in DOMAIN updateData : CastField(f, updateData[f]).ok

\* the document with the fields of updateData set
Updated(doc, updateData) ==
  [k \in DOMAIN doc |->
     IF k \in DOMAIN updateData THEN CastField(k, updateData[k]).val ELSE doc[k]]

\* Audit.findOneAndUpdate({ id }, updateData, { new: true }) on the
\* collection s: found is false when no document has the id
FindOneAndUpdate(s, id, updateData) ==
  [found |-> id \in Ids(s),
   store |-> [i \in 1..Len(s) |->
                IF s[i].id = id THEN Updated(s[i], updateData) ELSE s[i]]]

\* lines 373-391 on the collection s
HandlePut(s, id, normalized) ==
  IF ~Truthy(id) THEN [status |-> 400, store |-> s]
  ELSE IF normalized.threw \/ ~CastOk(normalized.val)
  THEN [status |-> 500, store |-> s]
  ELSE IF ~FindOneAndUpdate(s, id.v, normalized.val).found
  THEN [status |-> 404, store |-> s]
  ELSE [status |-> 200, store |-> FindOneAndUpdate(s, id.v, normalized.val).store]

\* PUT /api/audits/:id, lines 371-393
PutAudit(id, update) ==
  /\ phase = "server"
  /\ store' = HandlePut(store, ToNumber(Str(id)),
                        NormalizedUpdate(UpdateData(update))).store
  /\ last' = Edited("PUT /api/audits/:id",
                    HandlePut(store, ToNumber(Str(id)),
                              NormalizedUpdate(UpdateData(update))).status,
                    id, update, store)
  /\ UNCHANGED <<inflight, input, output, phase>>

\* the collection s without the document of this id
DeleteOne(s, id) == LET Other(doc) == doc.id # id IN SelectSeq(s, Other)

\* lines 398-402 on the collection s: Audit.findOneAndDelete({ id })
HandleDelete(s, id) ==
  IF ~Truthy(id) THEN [status |-> 400, store |-> s]
  ELSE IF id.v \notin Ids(s) THEN [status |-> 404, store |-> s]
  ELSE [status |-> 200, store |-> DeleteOne(s, id.v)]

\* DELETE /api/audits/:id, lines 396-407
DeleteAudit(id) ==
  /\ phase = "server"
  /\ store' = HandleDelete(store, ToNumber(Str(id))).store
  /\ last' = Edited("DELETE /api/audits/:id",
                    HandleDelete(store, ToNumber(Str(id))).status, id, <<>>, store)
  /\ UNCHANGED <<inflight, input, output, phase>>

NextEdit ==
  \/ \E audits \in EditBatches : EditSync(audits)
  \/ \E id \in IdParams, update \in PutBodies : PutAudit(id, update)
  \/ \E id \in IdParams : DeleteAudit(id)

SpecEdit == Init /\ [][NextEdit]_vars

-----------------------------------------------------------------------------
(* The CSV import, main of src/update_audits_from_csv.js (lines 41-83): the *)
(* records of the file, the header row, and one findOneAndUpdate with       *)
(* upsert per data row, each awaited before the next row.  It runs on the   *)
(* collection that POST /api/sync fills.                                    *)

UpperChars ==
  <<"A", "B", "C", "D", "E", "F", "G", "H", "I", "J", "K", "L", "M",
    "N", "O", "P", "Q", "R", "S", "T", "U", "V", "W", "X", "Y", "Z">>

LowerChars ==
  <<"a", "b", "c", "d", "e", "f", "g", "h", "i", "j", "k", "l", "m",
    "n", "o", "p", "q", "r", "s", "t", "u", "v", "w", "x", "y", "z">>

LowerOf(c) ==
  IF \E i \in 1..26 : UpperChars[i] = c
  THEN LowerChars[CHOOSE i \in 1..26 : UpperChars[i] = c]
  ELSE c

\* s.toLowerCase()
ToLowerCase(s) == [i \in 1..Len(s) |-> LowerOf(s[i])]

\* s.includes(sub)
Includes(s, sub) ==
  \E i \in 1..(Len(s) - Len(sub) + 1) : SubSeq(s, i, i + Len(sub) - 1) = sub

\* row[i]: undefined past the end of the row
Column(row, i) == IF i + 1 <= Len(row) THEN Str(row[i + 1]) ELSE Undefined

\* the longest run of data rows in a file of the model
MaxRows == 2

\* the rows of the files: the header, in two spellings and two widths; two
\* rows of the id 1, one of them as 01 and with an empty address; rows of
\* the id 2; rows whose first column is blank, empty, and a text
csvHeader == <<<<"S", "/", "N">>, <<"L">>, <<"Z">>, <<"N">>, <<"A">>>>
csvOne == <<<<"1">>, <<"I">>, <<"z">>, cA, cX>>
csvOneAgain == <<<<"0", "1">>, <<"E">>, <<"z">>, cB, <<>>>>
csvTwo == <<<<"2">>, <<"E">>, <<"z">>, cB, cX>>
csvBlank == <<<<" ">>, <<"E">>, <<"z">>, cA, cX>>
csvEmpty == <<<<>>, <<"I">>, <<"z">>, cB, cX>>
csvText == <<<<"x">>, <<"I">>, <<"z">>, cA, cX>>
csvShortHeader == <<<<"s", "/", "n", "o">>, <<"L">>>>
csvShortTwo == <<<<"2">>, <<"I">>>>

CsvRows == {csvOne, csvOneAgain, csvBlank}

\* the records of the files: data rows under the header, a data row above
\* it and an empty first column, a text in the first column, no header at
\* all, rows of two columns, rows of unequal lengths
CsvFiles ==
  {<<csvHeader>> \o rows : rows \in SeqsUpTo(CsvRows, MaxRows)}
    \cup {<<csvTwo, csvHeader, csvEmpty, csvOne>>, <<csvOne, csvTwo>>,
          <<csvHeader, csvText, csvTwo>>,
          <<csvShortHeader, csvShortTwo>>, <<csvHeader, csvShortTwo>>}

\* the batches of POST /api/sync that fill the collection before an import
CsvBatches == {<<editOne>>, <<editTwo, editOne>>, <<editZero>>}

\* csvParse(csvContent, { skip_empty_lines: true }) raises on a record whose
\* length is not that of the first one
EqualLengths(records) ==
  \A i \in 1..Len(records) : Len(records[i]) = Len(records[1])

\* line 51: row[0] && row[0].toLowerCase().includes('s/n')
IsHeader(row) ==
  /\ Truthy(Column(row, 0))
  /\ Includes(ToLowerCase(Column(row, 0).v), <<"s", "/", "n">>)

\* lines 51-55: records.findIndex, 0 when no row is a header
HeaderIdx(records) ==
  IF \E i \in 1..Len(records) : IsHeader(records[i])
  THEN CHOOSE i \in 1..Len(records) :
         IsHeader(records[i]) /\ \A j \in 1..(i - 1) : ~IsHeader(records[j])
  ELSE 0

\* line 57: records.slice(headerIdx + 1)
DataRows(records) == SubSeq(records, HeaderIdx(records) + 1, Len(records))

\* line 61: !row[0] || isNaN(Number(row[0]))
Skipped(row) == ~Truthy(Column(row, 0)) \/ IsNaN(ToNumber(Column(row, 0)))

\* lines 62-75: the update of a row
RowUpdate(row) ==
  [id |-> ToNumber(Column(row, 0)).v,
   localGov |-> OrElse(Column(row, 1), EmptyStr),
   schoolName |-> OrElse(Column(row, 3), EmptyStr),
   schoolAddress |-> OrElse(Column(row, 4), EmptyStr),
   synced |-> TRUE]

\* the document of an upsert that found none: the update and the default of
\* the array path photos (line 34)
Upserted(update) == update @@ [photos |-> <<>>]

\* an upsert that replaces the document it finds
UpsertReplacing(s, update) ==
  IF update.id \in Ids(s)
  THEN [i \in 1..Len(s) |-> IF s[i].id = update.id THEN Upserted(update) ELSE s[i]]
  ELSE Append(s, Upserted(update))

\* lines 66-76: Audit.findOneAndUpdate({ id }, update, { upsert: true, ... })
\* on the collection s: the fields of the update are set in the document of
\* the id, which is created when there is none
FindOneAndUpsert(s, update) ==
  IF update.id \in Ids(s)
  THEN [i \in 1..Len(s) |-> IF s[i].id = update.id THEN update @@ s[i] ELSE s[i]]
  ELSE Append(s, Upserted(update))

\* the run of the script as the history variable keeps it: status is
\* "rows" in the loop, "exit 0" after it, "exit 1" without a header and
\* "raised" when csvParse raised; updated is the counter of line 59
Import(records, status, before, updated) ==
  [op |-> "update_audits_from_csv", status |-> status, records |-> records,
   before |-> before, updated |-> updated]

\* lines 41-59: the file is parsed and the header found
CsvStart(records) ==
  /\ phase = "server"
  /\ last' = Import(records,
                    IF ~EqualLengths(records) THEN "raised"
                    ELSE IF HeaderIdx(records) = 0 THEN "exit 1"
                    ELSE "rows",
                    store, 0)
  /\ phase' = IF last'.status = "rows" THEN "import" ELSE "server"
  /\ inflight' = IF last'.status = "rows" THEN DataRows(records) ELSE <<>>
  /\ UNCHANGED <<store, input, output>>

\* lines 60-79: one turn of the loop
CsvRow ==
  /\ phase = "import"
  /\ inflight # <<>>
  /\ IF Skipped(Head(inflight))
     THEN UNCHANGED <<store, last>>
     ELSE /\ store' = FindOneAndUpsert(store, RowUpdate(Head(inflight)))
          /\ last' = [last EXCEPT !.updated = @ + 1]
  /\ inflight' = Tail(inflight)
  /\ UNCHANGED <<input, output, phase>>

\* lines 81-82
CsvExit ==
  /\ phase = "import"
  /\ inflight = <<>>
  /\ last' = [last EXCEPT !.status = "exit 0"]
  /\ phase' = "server"
  /\ UNCHANGED <<store, inflight, input, output>>

NextCsv ==
  \/ \E audits \in CsvBatches : EditSync(audits)
  \/ \E records \in CsvFiles : CsvStart(records)
  \/ CsvRow
  \/ CsvExit

SpecCsv == Init /\ [][NextCsv]_vars

-----------------------------------------------------------------------------
(* The normalization alone, on every photos value of the model *)

InitNorm ==
  /\ store = <<>>
  /\ inflight = <<>>
  /\ last = NoRequest
  /\ input \in PhotoInputs
  /\ output = Arr(<<>>)
  /\ phase = "input"

\* lines 112-188 applied to the input
Normalize ==
  /\ phase = "input"
  /\ output' = NormalizePhotos(input)
  /\ phase' = "normalized"
  /\ UNCHANGED <<store, inflight, last, input>>

NextNorm == Normalize

SpecNorm == InitNorm /\ [][NextNorm]_vars

-----------------------------------------------------------------------------
(* Properties of the normalization (under SpecNorm) *)

Normalized == phase = "normalized"

\* a record {name, data, type} whose name is a non-empty string
IsPhotoRecord(p) ==
  /\ p.t = "object"
  /\ DOMAIN p.v = {"name", "data", "type"}
  /\ p.v.name.t = "string"
  /\ p.v.name.v # <<>>

\* C2: the result of the normalization is a sequence of records
\* {name, data, type}, each with a non-empty string name, for every input.
C2_RecordsHaveNames ==
  Normalized =>
    /\ IsArray(output)
    /\ \A i \in 1..Len(output.v) : IsPhotoRecord(output.v[i])

\* an input with empty-named and nameless entries next to a named one has
\* been normalized to the named one alone
C2_Witness ==
  /\ Normalized
  /\ input = Arr(<<Obj([name |-> EmptyStr]), Str(cA)>>)
  /\ output = Arr(<<NameOnly(cA)>>)

\* a string or an object in the sense of typeof, null apart
StringOrObject(x) == TypeOf(x) = "string" \/ (TypeOf(x) = "object" /\ x # Null)

\* C3: in a sequence, an element that is neither a string nor an object is
\* discarded individually: the result is that of the sequence without these
\* elements.
C3_DiscardedIndividually ==
  Normalized /\ IsArray(input) =>
    output = NormalizePhotos(Arr(SelectSeq(input.v, StringOrObject)))

\* what the code returns for ["a", null, 7, {name: "b"}]: nothing
C3_Witness ==
  /\ Normalized
  /\ input = exMixed
  /\ output = Arr(<<>>)
  /\ NormalizePhotos(Arr(SelectSeq(exMixed.v, StringOrObject)))
       = Arr(<<NameOnly(cA), NameOnly(cB)>>)

\* C4: every name of the result is trimmed, and no name of the result is
\* empty or white space only.
C4_NamesTrimmed ==
  Normalized =>
    \A i \in 1..Len(output.v) :
      /\ output.v[i].v.name.v = Trim(output.v[i].v.name.v)
      /\ Trim(output.v[i].v.name.v) # <<>>

\* what the code returns for [{name: ""}, {name: "  "}, "a"]: the white
\* space name is kept
C4_Witness ==
  /\ Normalized
  /\ input = exEmptyNames
  /\ output = Arr(<<NameOnly(<<" ", " ">>), NameOnly(cA)>>)

\* the input is a string that is bracketed once trimmed
BracketedInput == input.t = "string" /\ Bracketed(Trim(input.v))

\* JSON.parse of the trimmed input with its single quotes replaced and its
\* newlines stripped
Recovered == JSONParse(ReplaceQuotes(StripNewlines(Trim(input.v))))

\* C9: a bracketed string that parses as a JSON sequence once its single
\* quotes are replaced and its newlines stripped is normalized to the result
\* of that sequence given as the input.
C9_StringAsParsed ==
  Normalized /\ BracketedInput /\ Recovered.ok /\ IsArray(Recovered.val) =>
    output = NormalizePhotos(Recovered.val)

\* what the code returns for the text ["a<newline>b"]: JSON.parse rejects
\* the newline, which nothing stripped, and the whole text becomes one name
C9_Witness ==
  /\ Normalized
  /\ input = Str(sNewlineInName)
  /\ Recovered = [ok |-> TRUE, val |-> Arr(<<Str(<<"a", "b">>)>>)]
  /\ output = Arr(<<NameOnly(sNewlineInName)>>)

\* the names of a semicolon-delimited string: its pieces, trimmed, the
\* empty ones dropped
RECURSIVE NonEmptyTrimmed(_)
NonEmptyTrimmed(pieces) ==
  IF pieces = <<>> THEN <<>>
  ELSE IF Trim(Head(pieces)) = <<>> THEN NonEmptyTrimmed(Tail(pieces))
  ELSE <<NameOnly(Trim(Head(pieces)))>> \o NonEmptyTrimmed(Tail(pieces))

\* C10: a bracketed string that JSON.parse rejects (after the replacement
\* of its single quotes) is normalized as a semicolon-delimited string: the
\* trimmed string is split on ';', the pieces are trimmed, the empty ones
\* dropped, and each remaining piece is a name-only record.
C10_FallbackSplits ==
  Normalized /\ BracketedInput /\ ~JSONParse(ReplaceQuotes(Trim(input.v))).ok =>
    output = Arr(NonEmptyTrimmed(Split(Trim(input.v))))

\* [a;b] has been normalized to the names "[a" and "b]"
C10_Witness ==
  /\ Normalized
  /\ input = Str(sBadBracket)
  /\ ~JSONParse(ReplaceQuotes(Trim(input.v))).ok
  /\ output = Arr(<<NameOnly(<<"[", "a">>), NameOnly(<<"b", "]">>)>>)

\* C11: a string that is not bracketed once trimmed is split on ';', the
\* pieces are trimmed, the empty ones dropped, and the result is one
\* name-only record per remaining piece, in the order of the pieces.
C11_SemicolonSplit ==
  Normalized /\ input.t = "string" /\ ~Bracketed(Trim(input.v)) =>
    output = Arr(NonEmptyTrimmed(Split(Trim(input.v))))

\* "a;; ;b" has been normalized to the records of a and b
C11_Witness ==
  /\ Normalized
  /\ input = Str(sSemiGaps)
  /\ output = Arr(<<NameOnly(cA), NameOnly(cB)>>)

\* an object with a string name that is not empty
HasName(x) ==
  x.t = "object" /\ Get(x, "name").t = "string" /\ Get(x, "name").v # <<>>

\* C12: a single object is normalized to the result of the one-element
\* sequence that holds it: one record, with its name, when the object has a
\* non-empty string name, the empty sequence otherwise.
C12_SingleObject ==
  Normalized /\ input.t = "object" =>
    /\ output = NormalizePhotos(Arr(<<input>>))
    /\ IF HasName(input)
       THEN Len(output.v) = 1 /\ output.v[1].v.name = input.v.name
       ELSE output = Arr(<<>>)

\* the object {name: "b"} has been normalized to the one record of b
C12_Witness ==
  /\ Normalized
  /\ input = Obj([name |-> Str(cB)])
  /\ output = Arr(<<NameOnly(cB)>>)

\* property k of an object, '' when the object has none
FieldOr(x, k) == IF k \in DOMAIN x.v THEN x.v[k] ELSE EmptyStr

\* the record of an element that is a string or a named object
RecordOf(x) ==
  IF x.t = "string" THEN NameOnly(x.v)
  ELSE Obj([name |-> x.v.name, data |-> FieldOr(x, "data"), type |-> FieldOr(x, "type")])

\* C13: a sequence whose elements are non-empty strings and objects with
\* non-empty names gives one record per element, in the same order and
\* with equal names kept: {name: s, data: '', type: ''} for a string s, and
\* name, data and type copied for an object, '' for a missing data or type.
C13_OneRecordPerElement ==
  /\ Normalized
  /\ IsArray(input)
  /\ \A i \in 1..Len(input.v) :
       (input.v[i].t = "string" /\ input.v[i].v # <<>>) \/ HasName(input.v[i])
  => output = Arr([i \in 1..Len(input.v) |-> RecordOf(input.v[i])])

\* ["a", "a", {name: "a", data: "X", type: "T"}] has given three records
C13_Witness ==
  /\ Normalized
  /\ input = Arr(<<Str(cA), Str(cA), Obj([name |-> Str(cA), data |-> Str(cX), type |-> Str(cT)])>>)
  /\ Len(output.v) = 3
  /\ output.v[1] = output.v[2]
  /\ output.v[3].v.data = Str(cX)

\* C14: the result is the empty sequence for an input that is undefined,
\* null, the empty sequence, a string that is empty or white space only, a
\* number or a boolean.
C14_EmptyForNoPhotos ==
  /\ Normalized
  /\ \/ input.t \in {"undefined", "null", "number", "boolean"}
     \/ input = Arr(<<>>)
     \/ input.t = "string" /\ \A i \in 1..Len(input.v) : input.v[i] \in WhiteSpace
  => output = Arr(<<>>)

\* a string of white space has been normalized to the empty sequence
C14_Witness ==
  /\ Normalized
  /\ input = Str(sBlank)
  /\ output = Arr(<<>>)

\* C15: the normalization of a result of the normalization is that result.
C15_Idempotent == Normalized => NormalizePhotos(output) = output

\* a result with data and type, from a JSON text, that a second
\* normalization leaves as it is
C15_Witness ==
  /\ Normalized
  /\ input = Str(sFullObj)
  /\ output = Arr(<<Obj([name |-> Str(cA), data |-> Str(cX), type |-> Str(cT)])>>)
  /\ NormalizePhotos(output) = output

-----------------------------------------------------------------------------
(* Properties of the server (under Spec) *)

PostedAudit == last.op = "POST /api/audits"

SyncedBatch == last.op = "POST /api/sync" /\ last.isArray /\ last.status # 0

\* the payload of the last POST /api/audits
Payload == last.audits[1]

\* the id of a payload as a number
IdOf(audit) == ToNumber(audit.id)

\* the store is the collection s and, after it, one audit with this id
StoredAfter(s, id) ==
  /\ Len(store) = Len(s) + 1
  /\ SubSeq(store, 1, Len(s)) = s
  /\ store[Len(store)].id = id

\* the payloads of the last batch whose id is not in the store at the find
NewOfBatch == NewPayloads(last.existing, last.audits)

\* the coordinates of a payload are absent, empty or numeric
NumericCoordinates(audit) ==
  /\ ~IsNaN(Coordinate(Field(audit, "latitude")))
  /\ ~IsNaN(Coordinate(Field(audit, "longitude")))

\* the new payloads of the last batch have numeric ids, no two the same,
\* and numeric coordinates
NewIdsInsertable ==
  /\ \A i \in 1..Len(NewOfBatch) :
       ~IsNaN(IdOf(NewOfBatch[i])) /\ NumericCoordinates(NewOfBatch[i])
  /\ \A i, j \in 1..Len(NewOfBatch) :
       IdOf(NewOfBatch[i]) = IdOf(NewOfBatch[j]) => i = j

\* C1: whatever the photos value of a payload is, its processing raises no
\* error in POST /api/audits and in POST /api/sync, and a payload whose id
\* passes the id check and is not stored yet (and whose coordinates are
\* numeric) is persisted: POST /api/audits answers 200 and appends the
\* audit; POST /api/sync, for a batch whose new ids are numeric and
\* distinct, answers 200 and stores every new payload.
C1_PhotosNeverBlock ==
  /\ PostedAudit => ~PreparedAudits[Payload].threw
  /\ PostedAudit /\ ~InvalidId(Payload.id) /\ IdOf(Payload).v \notin last.existing
       /\ NumericCoordinates(Payload) =>
       last.status = 200 /\ StoredAfter(last.before, IdOf(Payload).v)
  /\ SyncedBatch => ~SomeThrew(PrepareEach(last.audits))
  /\ SyncedBatch /\ NewIdsInsertable =>
       /\ last.status = 200
       /\ \A i \in 1..Len(NewOfBatch) : IdOf(NewOfBatch[i]).v \in Ids(store)

\* an audit whose photos is the sequence ["a", null, 7, {name: "b"}] has
\* been stored, with no photos
C1_Witness ==
  /\ PostedAudit
  /\ Payload.photos = exMixed
  /\ last.status = 200
  /\ StoredAfter(last.before, IdOf(Payload).v)
  /\ store[Len(store)].photos = <<>>

\* the names of the records the normalization gives for a photos value
NamesOfNormalized(photos) ==
  [i \in 1..Len(NormalizePhotos(photos).v) |-> NormalizePhotos(photos).v[i].v.name]

\* the audit stored under this id
StoredUnder(id) == store[CHOOSE i \in 1..Len(store) : store[i].id = id]

C6_SyncAddsNewOnly ==
  /\ SyncedBatch =>
       /\ Len(store) >= Len(last.before)
       /\ SubSeq(store, 1, Len(last.before)) = last.before
  /\ SyncedBatch /\ last.status = 200 =>
       /\ Len(store) = Len(last.before) + Len(NewOfBatch)
       /\ \A i \in 1..Len(NewOfBatch) :
            store[Len(last.before) + i].id = IdOf(NewOfBatch[i]).v
  /\ SyncedBatch /\ NewIdsInsertable => last.status = 200

\* a successful sync of a batch with a stored id and a new one: the stored
\* audit is as it was and the new one has been added
C6_Witness ==
  /\ SyncedBatch
  /\ last.status = 200
  /\ Len(last.audits) = 2
  /\ IdOf(last.audits[1]).v \in last.existing
  /\ Len(NewOfBatch) = 1
  /\ Len(store) = Len(last.before) + 1
  /\ last.before # <<>>

\* an id that is absent (undefined or null) or that is not a number
AbsentOrNonNumeric(id) == id.t \in {"undefined", "null"} \/ IsNaN(ToNumber(id))

\* C7: POST /api/audits rejects a payload whose id is absent or not numeric
\* and leaves the store as it was; a payload whose id is numeric (and not
\* stored yet, with numeric coordinates) is stored under the numeric value
\* of its id.
C7_NumericIdStored ==
  PostedAudit =>
    IF AbsentOrNonNumeric(Payload.id)
    THEN last.status = 400 /\ store = last.before
    ELSE IdOf(Payload).v \notin last.existing /\ NumericCoordinates(Payload) =>
           last.status = 200 /\ StoredAfter(last.before, IdOf(Payload).v)

\* what the code does with the id 0: the payload is rejected
C7_Witness ==
  /\ PostedAudit
  /\ Payload.id = Num(0)
  /\ ~AbsentOrNonNumeric(Payload.id)
  /\ last.status = 400
  /\ store = last.before

\* C8: POST /api/audits with an id that is in the store is answered with an
\* error and leaves the store as it was; and the store never holds two
\* audits with one id.
C8_OneAuditPerId ==
  /\ PostedAudit /\ ~InvalidId(Payload.id) /\ IdOf(Payload).v \in last.existing =>
       last.status >= 400 /\ store = last.before
  /\ \A i, j \in 1..Len(store) : store[i].id = store[j].id => i = j

\* a second audit with the id of a stored one, and other photos, has been
\* rejected
C8_Witness ==
  /\ PostedAudit
  /\ IdOf(Payload).v \in last.existing
  /\ last.status = 500
  /\ store = last.before
  /\ \E i \in 1..Len(store) :
       /\ store[i].id = IdOf(Payload).v
       /\ store[i].photos # NamesOfNormalized(Payload.photos)

\* a count stored for the payload value x: a number, 0 when x is absent or
\* not numeric
CountStored(stored, x) ==
  /\ stored.t = "number"
  /\ x = Undefined \/ IsNaN(ToNumber(x)) => stored = Num(0)
  /\ x # Undefined /\ ~IsNaN(ToNumber(x)) => stored = ToNumber(x)

\* a coordinate stored for the payload value x: a number or null, null
\* exactly when x is absent, null or the empty string
CoordinateStored(stored, x) ==
  /\ stored.t \in {"number", "null"}
  /\ stored = Null <=> x \in {Undefined, Null, EmptyStr}
  /\ stored # Null => stored = ToNumber(x)

\* the numeric fields of a stored audit are those of its payload, coerced
NumbersStored(doc, audit) ==
  /\ CountStored(doc.totalTeachers, Field(audit, "totalTeachers"))
  /\ CountStored(doc.totalStudents, Field(audit, "totalStudents"))
  /\ CoordinateStored(doc.latitude, Field(audit, "latitude"))
  /\ CoordinateStored(doc.longitude, Field(audit, "longitude"))

\* C17: in every audit that POST /api/audits or POST /api/sync stores,
\* totalTeachers and totalStudents are numbers, 0 when the payload value is
\* absent or not numeric, and latitude and longitude are numbers or null,
\* null exactly when the payload value is absent, null or the empty string.
C17_NumbersCoerced ==
  /\ PostedAudit /\ last.status = 200 => NumbersStored(store[Len(store)], Payload)
  /\ SyncedBatch /\ last.status = 200 =>
       \A i \in 1..Len(NewOfBatch) :
         NumbersStored(StoredUnder(IdOf(NewOfBatch[i]).v), NewOfBatch[i])
  /\ \A i \in 1..Len(store) :
       /\ store[i].totalTeachers.t = "number" /\ store[i].totalStudents.t = "number"
       /\ store[i].latitude.t \in {"number", "null"}
       /\ store[i].longitude.t \in {"number", "null"}

\* an audit stored with the counts 0 for "x" and null coordinates for
\* absent ones, after a synced one with the count 7 for "7", the count 0
\* for "x", a null latitude for '' and the longitude 5
C17_Witness ==
  /\ PostedAudit
  /\ last.status = 200
  /\ Field(Payload, "totalTeachers") = Str(<<"x">>)
  /\ Field(Payload, "latitude") = Undefined
  /\ store[Len(store)].totalTeachers = Num(0)
  /\ store[Len(store)].totalStudents = Num(0)
  /\ store[Len(store)].latitude = Null
  /\ store[Len(store)].longitude = Null
  /\ \E i \in 1..Len(store) :
       /\ store[i].totalTeachers = Num(7) /\ store[i].totalStudents = Num(0)
       /\ store[i].latitude = Null /\ store[i].longitude = Num(5)

-----------------------------------------------------------------------------
(* Properties of the server with concurrent requests (under SpecConc) *)

\* the payloads that a request between its awaits has prepared, in the
\* order of its newAudits
PayloadsOf(r) ==
  IF r.request.op = "POST /api/audits" THEN r.request.audits
  ELSE NewPayloads(r.request.existing, r.request.audits)

\* the photos that the handler computes for a payload when it is handled
\* alone
PhotosAlone(r, audit) ==
  IF r.request.op = "POST /api/audits"
  THEN PreparedAudits[audit].audit.photos
  ELSE PreparedSynced[audit].audit.photos

\* C16: under every interleaving of POST /api/audits and POST /api/sync
\* requests, the photos computed for a payload are those computed when the
\* payload is handled alone, and they are a function of the payload's
\* photos only (the names of their normalization), whatever the store holds
\* and whatever the other requests are.
C16_PhotosOfPayloadOnly ==
  \A k \in 1..Len(inflight) :
    /\ Len(inflight[k].newAudits) = Len(PayloadsOf(inflight[k]))
    /\ \A i \in 1..Len(inflight[k].newAudits) :
         /\ inflight[k].newAudits[i].photos =
              PhotosAlone(inflight[k], PayloadsOf(inflight[k])[i])
         /\ inflight[k].newAudits[i].photos =
              Arr(NamesOfNormalized(PayloadsOf(inflight[k])[i].photos))

\* a sync that found an audit stored and a POST /api/audits await together,
\* each with the names of its own payload
C16_Witness ==
  /\ Len(inflight) = 2
  /\ store # <<>>
  /\ inflight[1].request.op = "POST /api/sync"
  /\ inflight[1].request.existing = {2}
  /\ inflight[1].request.audits = <<syncTwo, syncOne>>
  /\ inflight[1].newAudits[1].photos = Arr(<<Str(cA)>>)
  /\ inflight[2].request.op = "POST /api/audits"
  /\ inflight[2].newAudits[1].photos = Arr(<<>>)

\* C18: a POST /api/sync that answers with an error has added no audit to
\* the store: the store is the one its insert found.
C18_SyncAllOrNothing ==
  SyncedBatch /\ last.status >= 400 => store = last.before

\* a sync of the ids 1 and 2 that found neither stored, and whose insert
\* came after another request stored the id 2, has answered 500 and has
\* added the audit 1
C18_Witness ==
  /\ SyncedBatch
  /\ last.status = 500
  /\ last.audits = <<syncOne, syncTwo>>
  /\ last.existing = {}
  /\ 2 \in Ids(last.before)
  /\ 1 \notin Ids(last.before)
  /\ store = Append(last.before, AuditDoc(PreparedSynced[syncOne].audit))

-----------------------------------------------------------------------------
(* Properties of the LGA/school mappings (under SpecLga) *)

\* no POST /api/lgas is in flight and the last one answered with success
LgaSettled ==
  /\ inflight = <<>>
  /\ LastPost(last).op = "POST /api/lgas"
  /\ LastPost(last).status = 200

\* the documents of one request's lagosStateData
StoredFrom(lagosStateData) ==
  LgaInsertMany(<<>>, LgaDocs(lagosStateData)).store

\* C19: when no POST /api/lgas is in flight and the last one answered with
\* success, the stored mappings are exactly the entries of one request's
\* lagosStateData, also after concurrent requests, and a GET /api/lgas
\* answered then returns exactly that mapping.
C19_LgasReplaced ==
  LgaSettled =>
    \E lagosStateData \in LgaPayloads :
      /\ Truthy(lagosStateData)
      /\ TypeOf(lagosStateData) = "object"
      /\ store = StoredFrom(lagosStateData)
      /\ last.op = "GET /api/lgas" =>
           last.lagosStateData = LgaResult(StoredFrom(lagosStateData))

\* two POST /api/lgas deleted before either inserted: both answered with
\* success, the store holds the documents of both payloads, two of them for
\* Ikeja, and GET /api/lgas has returned the mix
C19_Witness ==
  /\ LgaSettled
  /\ last.op = "GET /api/lgas"
  /\ last.post.lagosStateData = lgaTwo
  /\ last.post.before = StoredFrom(lgaOne)
  /\ store = StoredFrom(lgaOne) \o StoredFrom(lgaTwo)
  /\ last.lagosStateData =
       Obj((lgaIkeja :> Arr(<<Str(cB)>>)) @@ (lgaEpe :> Arr(<<Str(cA), Str(cB)>>)))

-----------------------------------------------------------------------------
(* Properties of the update and the removal of an audit (under SpecEdit) *)

PutDone == last.op = "PUT /api/audits/:id"

DeleteDone == last.op = "DELETE /api/audits/:id"

\* the id of the last PUT or DELETE is the text of a number
NumericParam == ~IsNaN(ToNumber(Str(last.id)))

\* the audit that the last PUT or DELETE names
NamedId == ToNumber(Str(last.id)).v

\* the collection holds the audits it held, in their order, each with the
\* fields it had except, for the named audit, the allowed fields of the body
OnlyAllowedChanged ==
  /\ Len(store) = Len(last.before)
  /\ \A i \in 1..Len(store) :
       /\ store[i].id = last.before[i].id
       /\ store[i].id # NamedId => store[i] = last.before[i]
       /\ \A k \in DOMAIN store[i] :
            k \notin allowedFields \cap DOMAIN last.body =>
              store[i][k] = last.before[i][k]

\* the collection holds the audits it held but the named one
OnlyNamedRemoved ==
  /\ NamedId \notin Ids(store)
  /\ Len(store) = Len(last.before) - 1
  /\ \A i \in 1..Len(last.before) :
       last.before[i].id # NamedId =>
         \E j \in 1..Len(store) : store[j] = last.before[i]

\* C20: PUT /api/audits/:id changes only the allowed fields of the body in
\* the audit of that id and leaves every other audit as it was; DELETE
\* /api/audits/:id removes exactly the audit of that id; when no audit has
\* the id either answers 404 'Audit not found' and the store is unchanged.
\* An answer other than success leaves the store unchanged.
C20_OnlyThatAudit ==
  /\ PutDone /\ NumericParam =>
       IF NamedId \in Ids(last.before)
       THEN /\ OnlyAllowedChanged
            /\ last.status \in {200, 500}
            /\ last.status = 500 => store = last.before
       ELSE /\ store = last.before
            /\ last.status \in {404, 500}
  /\ DeleteDone /\ NumericParam =>
       IF NamedId \in Ids(last.before)
       THEN OnlyNamedRemoved /\ last.status = 200
       ELSE store = last.before /\ last.status = 404
  /\ (PutDone \/ DeleteDone) /\ ~NumericParam => store = last.before

\* the audit 0 is stored with two others, DELETE /api/audits/0 has answered
\* 400 and the audit 0 is still stored
C20_Witness ==
  /\ DeleteDone
  /\ last.id = <<"0">>
  /\ last.status = 400
  /\ Len(last.before) = 3
  /\ 0 \in Ids(last.before)
  /\ store = last.before

-----------------------------------------------------------------------------
(* Properties of the CSV import (under SpecCsv) *)

\* the script has run to its end
ImportDone == last.op = "update_audits_from_csv" /\ last.status = "exit 0"

\* the rows after the header of the last import
RowsAfterHeader == DataRows(last.records)

\* the first column of the row is not empty and is the text of a number
NumericFirst(row) ==
  /\ Len(row) > 0
  /\ row[1] # <<>>
  /\ ~IsNaN(StringToNumber(row[1]))

\* the id of such a row
RowId(row) == StringToNumber(row[1]).v

\* the text of the column i of the row, empty when the row is shorter
TextOf(row, i) == IF i + 1 <= Len(row) THEN Str(row[i + 1]) ELSE EmptyStr

\* the audit of this id in the collection s
AuditOf(s, id) == s[CHOOSE k \in 1..Len(s) : s[k].id = id]

\* the fields that an import sets
ImportedFields == {"id", "localGov", "schoolName", "schoolAddress", "synced"}

\* the store holds exactly one audit with the id of the row, with the
\* columns 1, 3 and 4 of the row, synced, and with every other field of the
\* audit that had this id before
UpsertedFrom(row) ==
  /\ Cardinality({k \in 1..Len(store) : store[k].id = RowId(row)}) = 1
  /\ AuditOf(store, RowId(row)).localGov = TextOf(row, 1)
  /\ AuditOf(store, RowId(row)).schoolName = TextOf(row, 3)
  /\ AuditOf(store, RowId(row)).schoolAddress = TextOf(row, 4)
  /\ AuditOf(store, RowId(row)).synced = TRUE
  /\ RowId(row) \in Ids(last.before) =>
       \A k \in DOMAIN AuditOf(last.before, RowId(row)) \ ImportedFields :
         /\ k \in DOMAIN AuditOf(store, RowId(row))
         /\ AuditOf(store, RowId(row))[k] = AuditOf(last.before, RowId(row))[k]

\* the ids of the rows with a numeric first column
ImportedIds ==
  {RowId(RowsAfterHeader[i]) :
     i \in {j \in 1..Len(RowsAfterHeader) : NumericFirst(RowsAfterHeader[j])}}

\* the audits of the other ids are the ones the import found, and no audit
\* of another id is created
OthersUnchanged ==
  /\ Ids(store) = Ids(last.before) \cup ImportedIds
  /\ \A k \in 1..Len(last.before) :
       last.before[k].id \notin ImportedIds =>
         \E j \in 1..Len(store) : store[j] = last.before[k]

\* no later row of the file has the id of the row i
LastOfItsId(i) ==
  \A j \in (i + 1)..Len(RowsAfterHeader) :
    NumericFirst(RowsAfterHeader[j]) =>
      RowId(RowsAfterHeader[j]) # RowId(RowsAfterHeader[i])

\* C21 as stated: after the import, for EVERY row after the header with a
\* numeric first column the store holds exactly one audit with that id and
\* the columns of that row, synced, the other fields of an existing audit
\* unchanged; the audits of other ids are unchanged and the other rows
\* change nothing.
C21_EveryRowUpserted ==
  ImportDone =>
    /\ \A i \in 1..Len(RowsAfterHeader) :
         NumericFirst(RowsAfterHeader[i]) => UpsertedFrom(RowsAfterHeader[i])
    /\ OthersUnchanged

\* C21 amended: after the import, for every row after the header with a
\* numeric first column that is the last row of its id, the store holds
\* exactly one audit with that id and the columns of that row, synced, the
\* other fields of an existing audit unchanged; the audits of other ids are
\* unchanged and the other rows change nothing.
C21_LastRowUpserted ==
  ImportDone =>
    /\ \A i \in 1..Len(RowsAfterHeader) :
         NumericFirst(RowsAfterHeader[i]) /\ LastOfItsId(i) =>
           UpsertedFrom(RowsAfterHeader[i])
    /\ OthersUnchanged

\* a file with two rows of the id 1 was imported over the audits 1 and 2:
\* the audit 1 has the columns of the second row and the photos and the
\* count it had, the audit 2 is as it was
C21_Witness ==
  /\ ImportDone
  /\ last.records = <<csvHeader, csvOne, csvOneAgain>>
  /\ Ids(last.before) = {1, 2}
  /\ AuditOf(last.before, 1).photos # <<>>
  /\ AuditOf(store, 1).localGov = Str(<<"E">>)
  /\ AuditOf(store, 1).schoolName = Str(cB)
  /\ AuditOf(store, 1).schoolAddress = EmptyStr
  /\ AuditOf(store, 1).photos = AuditOf(last.before, 1).photos
  /\ AuditOf(store, 1).totalTeachers = Num(5)
  /\ AuditOf(store, 2) = AuditOf(last.before, 2)

====
